---- MODULE Spec2Model ----
(***************************************************************************)
(* recently-used-xbel: the registry file ~/.local/share/recently-used.xbel *)
(* read by parse_file, rewritten by update_recently_used (src/src/lib.rs), *)
(* and the hand-written emitter custom_write (src/src/custom_writer.rs).   *)
(*                                                                         *)
(* Text is modelled at the level of the XML tree: an element is a tag (a   *)
(* qualified name), an ordered attribute list and an ordered child list.   *)
(* Escaping and unescaping of attribute values cancel out and are left to  *)
(* the tree.  An attribute value is [s |-> <string>] for text that is not  *)
(* a decimal numeral and [d |-> <digits>] for a decimal numeral; names,    *)
(* commands, hrefs and timestamps of the bounded inputs are never          *)
(* numerals.  Option<T> is a sequence of length 0 (None) or 1 (Some).      *)
(***************************************************************************)
EXTENDS Integers, Sequences, FiniteSets, TLC

VARIABLES
    file,      \* content of the registry file: NoFile, EmptyText or a document
    build,     \* what the build's quick-xml fixes: how a None field is written
    calls,     \* number of update_recently_used calls made so far (sequential use)
    last,      \* the last completed sequential call: inputs, result, registries
    hits,      \* successful calls so far, per path and application name
    file0,     \* the registry file before the first call
    procs,     \* concurrent use: each invocation's position and local values
    writes,    \* concurrent use: the invocations that wrote, in order
    codec      \* codec use: a Registry value, its rendering, what is parsed back

vars == <<file, build, calls, last, hits, file0, procs, writes, codec>>

---------------------------------------------------------------------------
(* Bounds of the model *)

MaxCalls == 2
MaxBookmarks == 2
MaxApps == 2

---------------------------------------------------------------------------
(* Result<T, E> and Option<T> *)

Ok(v) == [ok |-> TRUE, val |-> v]
Err(e) == [ok |-> FALSE, err |-> e]
None == <<>>
Some(v) == <<v>>

\* `let v = x; f(v)`: x is evaluated once and f gets its value.
Bind(x, f(_)) == CHOOSE y \in {f(v) : v \in {x}} : TRUE

\* Vec::retain(|x| keep(x)) keeps the elements in order; the closure's
\* `removed = Some(x.clone())` runs for every dropped element, so the last
\* dropped one is what is left in `removed`.
LastOf(s) == IF s = <<>> THEN None ELSE Some(s[Len(s)])

---------------------------------------------------------------------------
(* u32 and its decimal text *)
(* A u32 is held as two 16-bit limbs, value = hi * Limb + lo, so that the  *)
(* whole 32-bit range is there, 2^32 - 1 and the wrap to 0 included.       *)

Limb == 65536

U32(n) == [hi |-> n \div Limb, lo |-> n % Limb]
U32Max == [hi |-> Limb - 1, lo |-> Limb - 1]

\* u32 + 1 without the overflow check: modulo 2^32.
WrappingSucc(c) ==
    IF c.lo + 1 < Limb THEN [c EXCEPT !.lo = @ + 1]
    ELSE [hi |-> (c.hi + 1) % Limb, lo |-> 0]

RECURSIVE ToDecimal(_)
\* u32::to_string: the decimal digits, most significant first, no sign, no
\* leading zero (0 is "0").
ToDecimal(c) ==
    IF c.hi = 0 /\ c.lo < 10 THEN <<c.lo>>
    ELSE LET t == (c.hi % 10) * Limb + c.lo
         IN Append(ToDecimal([hi |-> c.hi \div 10, lo |-> t \div 10]), t % 10)

\* One more digit d after the digits whose value is c.
WithDigit(c, d) ==
    LET l == c.lo * 10 + d
        h == c.hi * 10 + l \div Limb
    IN [hi |-> h % Limb, lo |-> l % Limb, over |-> c.over \/ h >= Limb]

\* The value of a digit string, with `over` once it no longer fits 32 bits.
DecimalValue(ds) ==
    LET F[n \in 0..Len(ds)] ==
            IF n = 0 THEN [hi |-> 0, lo |-> 0, over |-> FALSE]
            ELSE Bind(F[n - 1], LAMBDA c : WithDigit(c, ds[n]))
    IN F[Len(ds)]

\* str::parse::<u32>: a non-empty digit string whose value fits 32 bits.
ParseU32(v) ==
    IF "d" \notin DOMAIN v \/ v.d = <<>> THEN Err("Deserialization")
    ELSE Bind(DecimalValue(v.d),
              LAMBDA c : IF c.over THEN Err("Deserialization")
                         ELSE Ok([hi |-> c.hi, lo |-> c.lo]))

Str(s) == [s |-> s]
Num(n) == [d |-> ToDecimal(n)]

---------------------------------------------------------------------------
(* XML tree *)

QName(prefix, local) == [prefix |-> prefix, local |-> local]
Attr(k, v) == [k |-> k, v |-> v]
Elem(tag, attrs, kids) == [tag |-> tag, attrs |-> attrs, kids |-> kids]
Doc(decl, root) == [kind |-> "doc", decl |-> decl, root |-> Some(root)]

\* The registry file: absent, present with no bytes (what a truncation that
\* is not followed by the write leaves), or present with a document.
NoFile == [kind |-> "none", decl |-> FALSE, root |-> None]
EmptyText == [kind |-> "empty", decl |-> FALSE, root |-> None]
IsDoc(f) == f.kind = "doc"

\* The children of e whose tag the reader maps to `key`, in document order.
Kids(e, keyOf(_), key) == SelectSeq(e.kids, LAMBDA k : keyOf(k.tag) = key)

HasAttr(e, k) == \E i \in DOMAIN e.attrs : e.attrs[i].k = k
AttrOf(e, k) == e.attrs[CHOOSE i \in DOMAIN e.attrs : e.attrs[i].k = k].v

\* f applied to every element of s, in order.
Map(s, f(_)) ==
    CHOOSE y \in {[i \in DOMAIN v |-> CHOOSE z \in {f(x) : x \in {v[i]}} : TRUE] :
                  v \in {s}} : TRUE

\* Option<T>::map.
OptMap(o, f(_)) == IF o = None THEN None ELSE Some(f(o[1]))

---------------------------------------------------------------------------
(* The data model, src/src/lib.rs:31-122 *)

Application(name, exec, modified, count) ==
    [name |-> name, exec |-> exec, modified |-> modified, count |-> count]
Applications(apps) == [applications |-> apps]
MimeType(t) == [mime_type |-> t]
Metadata(owner, mime, apps) ==
    [owner |-> owner, mime_type |-> mime, applications |-> Applications(apps)]
Info(metadata) == [metadata |-> metadata]
Bookmark(href, added, modified, visited, info) ==
    [href |-> href, added |-> added, modified |-> modified,
     visited |-> visited, info |-> info]
RecentlyUsed(bookmarks) == [bookmarks |-> bookmarks]

AppsOf(b) == IF b.info = None THEN <<>> ELSE b.info[1].metadata.applications.applications

---------------------------------------------------------------------------
(* quick_xml::se::to_string over the derived Serialize, lib.rs:19, 31-122, 293 *)
(* A field renamed "@x" is written as attribute x, any other field as a    *)
(* child element whose tag is the renamed name, in declaration order.      *)

\* An Option field that is None: the serializer either writes the field's
\* tag as an empty element or writes nothing, as the build's quick-xml does.
se_None(tag) == IF build.noneAsEmpty THEN <<Elem(tag, <<>>, <<>>)>> ELSE <<>>

se_Application(a) ==
    Elem(QName("", "application"),
         <<Attr("name", Str(a.name)), Attr("exec", Str(a.exec)),
           Attr("modified", Str(a.modified)), Attr("count", Num(a.count))>>,
         <<>>)

se_Applications(apps) ==
    Elem(QName("", "applications"), <<>>, Map(apps.applications, se_Application))

se_MimeType(m) ==
    Elem(QName("mime", "mime-type"), <<Attr("type", Str(m.mime_type))>>, <<>>)

se_Metadata(md) ==
    Elem(QName("", "metadata"), <<Attr("owner", Str(md.owner))>>,
         (IF md.mime_type = None THEN se_None(QName("mime", "mime-type"))
          ELSE <<se_MimeType(md.mime_type[1])>>)
         \o <<se_Applications(md.applications)>>)

se_Info(info) == Elem(QName("", "info"), <<>>, <<se_Metadata(info.metadata)>>)

se_Bookmark(b) ==
    Elem(QName("", "bookmark"),
         <<Attr("href", Str(b.href)), Attr("added", Str(b.added)),
           Attr("modified", Str(b.modified)), Attr("visited", Str(b.visited))>>,
         IF b.info = None THEN se_None(QName("", "info"))
         ELSE <<se_Info(b.info[1])>>)

\* The whole document: the root is named by the struct's rename, carries no
\* attribute, and nothing precedes it.
quick_to_string(r) ==
    Doc(FALSE, Elem(QName("", "xbel"), <<>>, Map(r.bookmarks, se_Bookmark)))

---------------------------------------------------------------------------
(* custom_write, src/src/custom_writer.rs:9-91 *)

cw_Application(app) ==
    Elem(QName("bookmark", "application"),
         <<Attr("name", Str(app.name)), Attr("exec", Str(app.exec)),
           Attr("modified", Str(app.modified)), Attr("count", Num(app.count))>>,
         <<>>)

cw_Metadata(md) ==
    Elem(QName("", "metadata"), <<Attr("owner", Str(md.owner))>>,
         (IF md.mime_type = None THEN <<>>
          ELSE <<Elem(QName("mime", "mime-type"),
                      <<Attr("type", Str(md.mime_type[1].mime_type))>>, <<>>)>>)
         \o <<Elem(QName("bookmark", "applications"), <<>>,
                   Map(md.applications.applications, cw_Application))>>)

cw_Bookmark(b) ==
    Elem(QName("", "bookmark"),
         <<Attr("href", Str(b.href)), Attr("added", Str(b.added)),
           Attr("modified", Str(b.modified)), Attr("visited", Str(b.visited))>>,
         IF b.info = None THEN <<>>
         ELSE <<Elem(QName("", "info"), <<>>, <<cw_Metadata(b.info[1].metadata)>>)>>)

\* The writer starts at the root element: no event is written before it.
custom_write(recently_used) ==
    Doc(FALSE,
        Elem(QName("", "xbel"),
             <<Attr("version", Str("1.0")),
               Attr("xmlns:bookmark",
                    Str("http://www.freedesktop.org/standards/desktop-bookmarks")),
               Attr("xmlns:mime",
                    Str("http://www.freedesktop.org/standards/shared-mime-info"))>>,
             Map(recently_used.bookmarks, cw_Bookmark)))

---------------------------------------------------------------------------
(* quick_xml::de::from_str over the derived Deserialize, lib.rs:31-122, 152 *)
(* A field renamed "@x" is read from attribute x, any other field from the *)
(* child elements whose key equals the renamed name.  Attributes and       *)
(* children that match no field are skipped.  A field that is neither an   *)
(* Option nor marked `default` must be present.                            *)

\* The key the reader compares with a field's name is the element's local
\* name: the quick-xml releases that know the "@" renames of lib.rs:44-121
\* drop the prefix, so <bookmark:applications> is read into the field
\* "applications" and no element is read into the field "mime:mime-type".
ElemKey(tag) == QName("", tag.local)

AllOk(rs) == \A i \in DOMAIN rs : rs[i].ok
ValOf(r) == r.val
Vals(rs) == Map(rs, ValOf)
DeErr == Err("Deserialization")

\* A String field: the attribute's text (the bounded inputs hold no name,
\* command, href or timestamp that is a numeral).
de_String(v) == v.s

de_Application(e) ==
    IF ~(HasAttr(e, "name") /\ HasAttr(e, "exec") /\ HasAttr(e, "modified")
         /\ HasAttr(e, "count"))
    THEN DeErr
    ELSE Bind(ParseU32(AttrOf(e, "count")),
              LAMBDA c : IF ~c.ok THEN DeErr
                         ELSE Ok(Application(de_String(AttrOf(e, "name")),
                                             de_String(AttrOf(e, "exec")),
                                             de_String(AttrOf(e, "modified")),
                                             c.val)))

\* `applications: Vec<Application>` carries no `default`: with no
\* application child the field is missing.
de_Applications(e) ==
    Bind(Map(Kids(e, ElemKey, QName("", "application")), de_Application),
         LAMBDA rs : IF rs = <<>> \/ ~AllOk(rs) THEN DeErr
                     ELSE Ok(Applications(Vals(rs))))

de_MimeType(e) ==
    IF HasAttr(e, "type") THEN Ok(MimeType(de_String(AttrOf(e, "type")))) ELSE DeErr

de_Metadata(e) ==
    Bind(Map(Kids(e, ElemKey, QName("mime", "mime-type")), de_MimeType),
         LAMBDA ms :
    Bind(Map(Kids(e, ElemKey, QName("", "applications")), de_Applications),
         LAMBDA as :
           IF ~HasAttr(e, "owner") \/ Len(ms) > 1 \/ ~AllOk(ms)
              \/ Len(as) # 1 \/ ~AllOk(as)
           THEN DeErr
           ELSE Ok([owner |-> de_String(AttrOf(e, "owner")),
                    mime_type |-> Vals(ms),
                    applications |-> as[1].val])))

de_Info(e) ==
    Bind(Map(Kids(e, ElemKey, QName("", "metadata")), de_Metadata),
         LAMBDA ms : IF Len(ms) # 1 \/ ~AllOk(ms) THEN DeErr
                     ELSE Ok(Info(ms[1].val)))

de_Bookmark(e) ==
    Bind(Map(Kids(e, ElemKey, QName("", "info")), de_Info),
         LAMBDA is :
           IF ~(HasAttr(e, "href") /\ HasAttr(e, "added")
                /\ HasAttr(e, "modified") /\ HasAttr(e, "visited"))
              \/ Len(is) > 1 \/ ~AllOk(is)
           THEN DeErr
           ELSE Ok(Bookmark(de_String(AttrOf(e, "href")),
                            de_String(AttrOf(e, "added")),
                            de_String(AttrOf(e, "modified")),
                            de_String(AttrOf(e, "visited")), Vals(is))))

\* `bookmarks` is marked `default`: no bookmark child gives the empty Vec.
de_RecentlyUsed(e) ==
    Bind(Map(Kids(e, ElemKey, QName("", "bookmark")), de_Bookmark),
         LAMBDA bs : IF ~AllOk(bs) THEN DeErr ELSE Ok(RecentlyUsed(Vals(bs))))

\* Text with no root element does not deserialize.
from_str(f) == IF IsDoc(f) THEN de_RecentlyUsed(f.root[1]) ELSE DeErr

---------------------------------------------------------------------------
(* Inputs of a call and what the environment answers *)

Paths == {"/tmp/a.txt", "/tmp/b c", "rel/x.txt"}
AppNames == {"org.test", "org.gnome.gedit"}
Execs == {"test", "gedit %u"}

\* The target file's times (std::fs::Metadata), in microseconds since the epoch.
FileMeta(c, m, a) == [created |-> c, modified |-> m, accessed |-> a]
Metas == {FileMeta(1, 2, 3), FileMeta(3, 1, 1)}

\* What can go wrong outside the program during one call: $HOME unresolvable
\* at the first or at the second dir(), the read of the registry file, the
\* target's metadata, the open of the registry file, the write_all after it.
Faults == {"none", "home", "read", "metadata", "home2", "open", "write"}

Events == [path : Paths, app_name : AppNames, exec : Execs, meta : Metas]

\* dir(), lib.rs:144-146
dir(fault, which) == IF fault = which THEN None ELSE Some("~/.local/share/recently-used.xbel")

\* parse_file, lib.rs:149-153.  `deserialized` is from_str(f), handed in so
\* that one state's calls share its evaluation.
parse_file(f, deserialized, fault) ==
    IF dir(fault, "home") = None THEN Err("DoesNotExist")
    ELSE IF f = NoFile \/ fault = "read" THEN Err("Read")
    ELSE deserialized

\* system_time_to_string, lib.rs:309-312: RFC 3339, UTC, microseconds, "Z".
system_time_to_string(time) ==
    CASE time = 1 -> "1970-01-01T00:00:00.000001Z"
      [] time = 2 -> "1970-01-01T00:00:00.000002Z"
      [] time = 3 -> "1970-01-01T00:00:00.000003Z"

\* path_to_href, lib.rs:314-319: Url::from_file_path takes absolute paths
\* only and percent-encodes the space.
path_to_href(path) ==
    CASE path = "/tmp/a.txt" -> Some("file:///tmp/a.txt")
      [] path = "/tmp/b c" -> Some("file:///tmp/b%20c")
      [] OTHER -> None

\* mime_from_path, lib.rs:321-332: by extension.
mime_from_path(path) ==
    CASE path = "/tmp/a.txt" -> Some("text/plain")
      [] path = "rel/x.txt" -> Some("text/plain")
      [] OTHER -> None

---------------------------------------------------------------------------
(* update_recently_used, lib.rs:185-307 *)

\* A retain that lets every bookmark through.
KeepsEveryBookmark(bookmarks, href) == bookmarks

\* A retain with the test the wrong way round: only the match stays.
KeepsOnlyTheMatch(bookmarks, href) == SelectSeq(bookmarks, LAMBDA b : b.href = href)

\* lib.rs:198-204: the bookmarks kept, and the one taken out.
RetainedBookmarks(bookmarks, href) == SelectSeq(bookmarks, LAMBDA b : b.href # href)
RemovedBookmark(bookmarks, href) == LastOf(SelectSeq(bookmarks, LAMBDA b : b.href = href))

\* A retain that lets every application through.
KeepsEveryApplication(apps, app_name) == apps

\* lib.rs:213-219
RetainedApplications(apps, app_name) == SelectSeq(apps, LAMBDA el : el.name # app_name)
RemovedApplication(apps, app_name) == LastOf(SelectSeq(apps, LAMBDA el : el.name = app_name))

\* lib.rs:224: `removed.count += 1` on a u32.  With overflow checks the
\* addition panics at U32Max, without them it wraps.
CountOverflows(count) == count = U32Max
Incremented(count) == WrappingSucc(count)

\* An application found again and put back as it was.
PutBackUncounted(removed) == removed

\* lib.rs:222-235: the application found again.
UsedAgain(removed) == [removed EXCEPT !.count = Incremented(removed.count)]

\* A first record with the two strings in each other's place.
NewApplicationSwapped(app_name, exec, modified) == Application(exec, app_name, modified, U32(1))

\* lib.rs:237-242 and 264-269: the application recorded for the first time.
NewApplication(app_name, exec, modified) == Application(app_name, exec, modified, U32(1))

\* A first record put in front of the list.
UpdatedApplicationsInFront(apps, app_name, exec, modified) ==
    Bind(RemovedApplication(apps, app_name),
         LAMBDA removed_application :
           <<IF removed_application # None THEN UsedAgain(removed_application[1])
             ELSE NewApplication(app_name, exec, modified)>>
           \o RetainedApplications(apps, app_name))

\* lib.rs:211-254: the applications list of an existing bookmark with Info.
UpdatedApplications(apps, app_name, exec, modified) ==
    Bind(RemovedApplication(apps, app_name),
         LAMBDA removed_application :
           Append(RetainedApplications(apps, app_name),
                  IF removed_application # None THEN UsedAgain(removed_application[1])
                  ELSE NewApplication(app_name, exec, modified)))

\* An update that takes `added` for the time the bookmark was added and
\* leaves it alone.
UpdatedBookmarkAddedOnce(old_bookmark, app_name, exec, added, modified, visited) ==
    IF old_bookmark.info = None
    THEN [old_bookmark EXCEPT !.modified = modified, !.visited = visited]
    ELSE [old_bookmark EXCEPT !.modified = modified, !.visited = visited,
                              !.info[1].metadata.applications.applications =
                                  UpdatedApplications(@, app_name, exec, modified)]

\* An update that gives a bookmark without Info the Info of a new one.
UpdatedBookmarkSynthesizing(old_bookmark, app_name, exec, added, modified, visited) ==
    IF old_bookmark.info = None
    THEN [old_bookmark EXCEPT !.added = added, !.modified = modified,
                              !.visited = visited,
                              !.info = Some(Info(Metadata("http://freedesktop.org", None,
                                         <<NewApplication(app_name, exec, modified)>>)))]
    ELSE [old_bookmark EXCEPT !.added = added, !.modified = modified,
                              !.visited = visited,
                              !.info[1].metadata.applications.applications =
                                  UpdatedApplications(@, app_name, exec, modified)]

\* lib.rs:207-256: the existing bookmark, touched.
UpdatedBookmark(old_bookmark, app_name, exec, added, modified, visited) ==
    IF old_bookmark.info = None
    THEN [old_bookmark EXCEPT !.added = added, !.modified = modified,
                              !.visited = visited]
    ELSE [old_bookmark EXCEPT !.added = added, !.modified = modified,
                              !.visited = visited,
                              !.info[1].metadata.applications.applications =
                                  UpdatedApplications(@, app_name, exec, modified)]

\* lib.rs:257-288: the bookmark of a path seen for the first time.
NewBookmark(href, element_path, app_name, exec, added, modified, visited) ==
    Bookmark(href, added, modified, visited,
             Some(Info(Metadata("http://freedesktop.org",
                                OptMap(mime_from_path(element_path), MimeType),
                                <<NewApplication(app_name, exec, modified)>>))))

\* lib.rs:206-289: the bookmark pushed at line 291.
TouchedBookmark(removed_bookmark, href, element_path, app_name, exec, added, modified, visited) ==
    IF removed_bookmark # None
    THEN UpdatedBookmark(removed_bookmark[1], app_name, exec, added, modified, visited)
    ELSE NewBookmark(href, element_path, app_name, exec, added, modified, visited)

\* A merge that puts the touched bookmark in front.
MergedInFront(parsed_file, href, element_path, app_name, exec, added, modified, visited) ==
    Bind(RemovedBookmark(parsed_file.bookmarks, href),
         LAMBDA removed_bookmark :
           RecentlyUsed(<<TouchedBookmark(removed_bookmark, href, element_path,
                                          app_name, exec, added, modified, visited)>>
                        \o RetainedBookmarks(parsed_file.bookmarks, href)))

\* lib.rs:197-291: the registry after the event.
Merged(parsed_file, href, element_path, app_name, exec, added, modified, visited) ==
    Bind(RemovedBookmark(parsed_file.bookmarks, href),
         LAMBDA removed_bookmark :
           RecentlyUsed(Append(RetainedBookmarks(parsed_file.bookmarks, href),
                               TouchedBookmark(removed_bookmark, href, element_path,
                                               app_name, exec, added, modified,
                                               visited))))

\* lib.rs:224 reached with count = U32Max.
WouldOverflow(parsed_file, href, app_name) ==
    Bind(RemovedBookmark(parsed_file.bookmarks, href),
         LAMBDA removed_bookmark :
           /\ removed_bookmark # None
           /\ Bind(RemovedApplication(AppsOf(removed_bookmark[1]), app_name),
                   LAMBDA removed_application :
                     /\ removed_application # None
                     /\ CountOverflows(removed_application[1].count)))

\* lib.rs:190-293: everything before the registry file is opened for writing.
\* `checked`: whether the profile compiled the overflow check in.
Prepared(f, deserialized, fault, ev, checked) ==
    LET parsed == parse_file(f, deserialized, fault)
        href == path_to_href(ev.path)
    IN IF ~parsed.ok THEN parsed
       ELSE IF href = None THEN Err("Path")
       ELSE IF fault = "metadata" THEN Err("Metadata")
       ELSE IF checked /\ WouldOverflow(parsed.val, href[1], ev.app_name)
       THEN Err("panic")
       ELSE Bind(Merged(parsed.val, href[1], ev.path, ev.app_name, ev.exec,
                        system_time_to_string(ev.meta.created),
                        system_time_to_string(ev.meta.modified),
                        system_time_to_string(ev.meta.accessed)),
                 LAMBDA after : Ok([before |-> parsed.val, after |-> after,
                                    serialized |-> quick_to_string(after)]))

\* A store that opens, and truncates, before it asks where the file is.
CommittedTruncatingFirst(f, fault, serialized) ==
    IF dir(fault, "home2") = None THEN [result |-> "DoesNotExist", file |-> EmptyText]
    ELSE IF fault = "open" THEN [result |-> "Update", file |-> f]
    ELSE IF fault = "write" THEN [result |-> "Update", file |-> EmptyText]
    ELSE [result |-> "Ok", file |-> serialized]

\* A store that reports Ok and leaves the file as it found it.
CommittedNowhere(f, fault, serialized) ==
    IF dir(fault, "home2") = None THEN [result |-> "DoesNotExist", file |-> f]
    ELSE IF fault = "open" THEN [result |-> "Update", file |-> f]
    ELSE IF fault = "write" THEN [result |-> "Update", file |-> EmptyText]
    ELSE [result |-> "Ok", file |-> f]

\* lib.rs:294-306: the second dir(), open with truncate and create, write_all.
\* A write_all that fails leaves the truncated file; what it holds then (no
\* byte, or a prefix of the document) does not deserialize.
Committed(f, fault, serialized) ==
    IF dir(fault, "home2") = None THEN [result |-> "DoesNotExist", file |-> f]
    ELSE IF fault = "open" THEN [result |-> "Update", file |-> f]
    ELSE IF fault = "write" THEN [result |-> "Update", file |-> EmptyText]
    ELSE [result |-> "Ok", file |-> serialized]

---------------------------------------------------------------------------
(* Registry files a first call can find *)

HrefA == "file:///tmp/a.txt"
HrefB == "file:///tmp/b%20c"

\* What the desktop's own writer leaves: the declaration, then the prefixed
\* schema that custom_write reproduces.
DesktopDoc(r) == [custom_write(r) EXCEPT !.decl = TRUE]

SeedDesktop ==
    RecentlyUsed(<<
        Bookmark(HrefB, system_time_to_string(1), system_time_to_string(1),
                 system_time_to_string(1), None),
        Bookmark(HrefA, system_time_to_string(2), system_time_to_string(3),
                 system_time_to_string(3),
                 Some(Info(Metadata("http://freedesktop.org",
                                    Some(MimeType("text/plain")),
                                    <<Application("org.test", "test",
                                                  system_time_to_string(3), U32Max),
                                      Application("org.gnome.gedit", "gedit %u",
                                                  system_time_to_string(2), U32(2))>>))))>>)

SeedOwn ==
    RecentlyUsed(<<
        Bookmark(HrefA, system_time_to_string(3), system_time_to_string(3),
                 system_time_to_string(3),
                 Some(Info(Metadata("http://example.org/owner", None,
                                    <<Application("org.gnome.gedit", "gedit %u",
                                                  system_time_to_string(3), U32(1))>>))))>>)

\* lib.rs:376-387 writes the empty registry with quick_to_string.
InitFiles ==
    {NoFile, EmptyText, quick_to_string(RecentlyUsed(<<>>)),
     DesktopDoc(SeedDesktop), quick_to_string(SeedOwn)}

Builds == [noneAsEmpty : BOOLEAN]

---------------------------------------------------------------------------
(* Sequential use: one call at a time *)

NoCall(f) ==
    [op |-> "none", result |-> "none", fault |-> "none", fileBefore |-> f,
     event |-> None,
     before |-> None, after |-> None]

Procs == {1, 2}
Idle ==
    [pc |-> "idle", result |-> "none", event |-> None, read |-> None,
     seen |-> 0, before |-> None, after |-> None, serialized |-> None]
NoProcs == [p \in Procs |-> Idle]
NoCodec == [pc |-> "off", reg |-> None, text |-> None, parsed |-> None]

Init ==
    /\ build \in Builds
    /\ file \in InitFiles
    /\ file0 = file
    /\ calls = 0
    /\ last = NoCall(file)
    /\ hits = [p \in Paths |-> [a \in AppNames |-> 0]]
    /\ procs = NoProcs
    /\ writes = <<>>
    /\ codec = NoCodec

\* The events tried under a fault: the fault's outcome depends on the path
\* alone.
EventsUnder(fault) ==
    IF fault = "none" THEN Events
    ELSE {ev \in Events : ev.app_name = "org.gnome.gedit" /\ ev.exec = "gedit %u"
                           /\ ev.meta = FileMeta(1, 2, 3)}

\* The profiles that differ on this call: both when lib.rs:224 overflows.
ProfilesAt(deserialized, ev) ==
    IF /\ deserialized.ok
       /\ path_to_href(ev.path) # None
       /\ WouldOverflow(deserialized.val, path_to_href(ev.path)[1], ev.app_name)
    THEN BOOLEAN ELSE {FALSE}

\* What a call of update_recently_used returns and leaves in the file.
Outcome(f, fault, p) ==
    IF p.ok THEN Committed(f, fault, p.val.serialized)
    ELSE [result |-> p.err, file |-> f]

\* One whole call of update_recently_used.
RecordAccess ==
    /\ calls < MaxCalls
    /\ \E deserialized \in {from_str(file)} :
       \E fault \in Faults :
       \E ev \in EventsUnder(fault) :
       \E checked \in ProfilesAt(deserialized, ev) :
       \E p \in {Prepared(file, deserialized, fault, ev, checked)} :
       \E c \in {Outcome(file, fault, p)} :
         LET done == c.result = "Ok"
         IN /\ file' = c.file
            /\ last' = [op |-> "update_recently_used", result |-> c.result,
                        fault |-> fault, fileBefore |-> file,
                        event |-> IF done THEN Some(ev) ELSE None,
                        before |-> IF done THEN Some(p.val.before) ELSE None,
                        after |-> IF done THEN Some(p.val.after) ELSE None]
            /\ hits' = IF done
                       THEN [hits EXCEPT ![ev.path][ev.app_name] = @ + 1]
                       ELSE hits
    /\ calls' = calls + 1
    /\ UNCHANGED <<build, file0, procs, writes, codec>>

\* One call of parse_file by a reader.
ParseFile ==
    /\ calls < MaxCalls
    /\ \E fault \in {"none", "home", "read"} :
       \E parsed \in {parse_file(file, from_str(file), fault)} :
            last' = [op |-> "parse_file",
                     result |-> IF parsed.ok THEN "Ok" ELSE parsed.err,
                     fault |-> fault, fileBefore |-> file, event |-> None, before |-> None,
                     after |-> IF parsed.ok THEN Some(parsed.val) ELSE None]
    /\ calls' = calls + 1
    /\ UNCHANGED <<file, build, hits, file0, procs, writes, codec>>

Next == RecordAccess \/ ParseFile

Spec == Init /\ [][Next]_vars

---------------------------------------------------------------------------
(* Concurrent use: two invocations of update_recently_used, each a process *)
(* of its own.  Nothing in lib.rs:185-307 locks the registry file, so the  *)
(* read at line 190 and the open-truncate-write at lines 296-304 of one    *)
(* invocation can have the other's steps between them.                     *)

InitConc ==
    /\ build \in Builds
    /\ file \in {quick_to_string(RecentlyUsed(<<>>)), quick_to_string(SeedOwn)}
    /\ file0 = file
    /\ calls = 0
    /\ last = NoCall(file)
    /\ hits = [p \in Paths |-> [a \in AppNames |-> 0]]
    /\ procs = NoProcs
    /\ writes = <<>>
    /\ codec = NoCodec

\* lib.rs:190-293 of invocation p: the read, the merge, the serialization.
Begin(p) ==
    /\ procs[p].pc = "idle"
    /\ \E deserialized \in {from_str(file)} :
       \E fault \in {"none", "home", "read", "metadata"} :
       \E ev \in EventsUnder(fault) :
       \E checked \in ProfilesAt(deserialized, ev) :
       \E r \in {Prepared(file, deserialized, fault, ev, checked)} :
         procs' = [procs EXCEPT ![p] =
                     IF r.ok
                     THEN [pc |-> "ready", result |-> "none", event |-> Some(ev),
                           read |-> Some(file), seen |-> Len(writes),
                           before |-> Some(r.val.before),
                           after |-> Some(r.val.after),
                           serialized |-> Some(r.val.serialized)]
                     ELSE [Idle EXCEPT !.pc = "done", !.result = r.err]]
    /\ UNCHANGED <<file, build, calls, last, hits, file0, writes, codec>>

\* lib.rs:294-306 of invocation p: the file is opened, truncated, written.
Finish(p) ==
    /\ procs[p].pc = "ready"
    /\ \E fault \in {"none", "home2", "open", "write"} :
       \E c \in {Committed(file, fault, procs[p].serialized[1])} :
         /\ file' = c.file
         /\ procs' = [procs EXCEPT ![p].pc = "done", ![p].result = c.result]
         /\ writes' = IF c.result = "Ok" THEN Append(writes, p) ELSE writes
    /\ UNCHANGED <<build, calls, last, hits, file0, codec>>

NextConc == \E p \in Procs : Begin(p) \/ Finish(p)

SpecConc == InitConc /\ [][NextConc]_vars

---------------------------------------------------------------------------
(* The codec on its own: custom_write, then from_str *)

CodecHrefs == <<HrefA, HrefB, "file:///tmp/c.md">>

CodecApplications ==
    {Application("org.test", "test", system_time_to_string(1), U32(1)),
     Application("org.gnome.gedit", "gedit %u", system_time_to_string(2), U32Max)}

CodecInfos ==
    {None} \cup
    {Some(Info(Metadata("http://freedesktop.org", m, as))) :
        m \in {None, Some(MimeType("text/plain"))},
        as \in UNION {[1..n -> CodecApplications] : n \in 0..MaxApps}}

\* Registries of 0..MaxBookmarks bookmarks with distinct hrefs.
CodecRegistries ==
    {RecentlyUsed([i \in DOMAIN is |->
                     Bookmark(CodecHrefs[i], system_time_to_string(1),
                              system_time_to_string(2), system_time_to_string(3),
                              is[i])]) :
        is \in UNION {[1..n -> CodecInfos] : n \in 0..MaxBookmarks}}

InitCodec ==
    /\ build \in Builds
    /\ file = NoFile
    /\ file0 = file
    /\ calls = 0
    /\ last = NoCall(file)
    /\ hits = [p \in Paths |-> [a \in AppNames |-> 0]]
    /\ procs = NoProcs
    /\ writes = <<>>
    /\ \E r \in CodecRegistries :
         codec = [pc |-> "value", reg |-> Some(r), text |-> None, parsed |-> None]

Render ==
    /\ codec.pc = "value"
    /\ codec' = [codec EXCEPT !.pc = "rendered",
                              !.text = Some(custom_write(codec.reg[1]))]
    /\ UNCHANGED <<file, build, calls, last, hits, file0, procs, writes>>

Parse ==
    /\ codec.pc = "rendered"
    /\ codec' = [codec EXCEPT !.pc = "parsed", !.parsed = Some(from_str(codec.text[1]))]
    /\ UNCHANGED <<file, build, calls, last, hits, file0, procs, writes>>

NextCodec == Render \/ Parse

SpecCodec == InitCodec /\ [][NextCodec]_vars

---------------------------------------------------------------------------
(* Vocabulary of the properties *)

ValidPaths == {p \in Paths : path_to_href(p) # None}
HrefOf(path) == path_to_href(path)[1]
HrefsOf(r) == {r.bookmarks[i].href : i \in DOMAIN r.bookmarks}
BookmarksFor(r, h) == SelectSeq(r.bookmarks, LAMBDA b : b.href = h)
ApplicationsNamed(b, n) == SelectSeq(AppsOf(b), LAMBDA a : a.name = n)
IndexOf(r, h) == CHOOSE i \in DOMAIN r.bookmarks : r.bookmarks[i].href = h

NoTwoShareHref(r) ==
    \A i, j \in DOMAIN r.bookmarks :
        i # j => r.bookmarks[i].href # r.bookmarks[j].href

NoTwoShareName(r) ==
    \A i \in DOMAIN r.bookmarks :
        \A j, k \in DOMAIN AppsOf(r.bookmarks[i]) :
            j # k => AppsOf(r.bookmarks[i])[j].name # AppsOf(r.bookmarks[i])[k].name

\* The registry a reader finds in a file, when the file deserializes.
ReadableAs(f, P(_)) == \A r \in {from_str(f)} : r.ok => P(r.val)

\* The last sequential call was an update_recently_used that returned Ok.
Succeeded == last.op = "update_recently_used" /\ last.result = "Ok"
\* ... and found, or did not find, a Bookmark for its href.
Updated == Succeeded /\ HrefOf(last.event[1].path) \in HrefsOf(last.before[1])
Created == Succeeded /\ HrefOf(last.event[1].path) \notin HrefsOf(last.before[1])

---------------------------------------------------------------------------
(* C1: starting from a registry in which no two Bookmarks share an href,   *)
(* after any sequence of successful update_recently_used calls no two      *)
(* Bookmarks share an href: neither in the registry the call hands to the  *)
(* writer nor in the registry a reader gets from the file.                 *)
C1_NoTwoBookmarksShareHref ==
    ReadableAs(file0, NoTwoShareHref) =>
        /\ Succeeded => NoTwoShareHref(last.after[1])
        /\ ReadableAs(file, NoTwoShareHref)

\* An update of a Bookmark that stands among others.
C1_Witness ==
    /\ Updated
    /\ Len(last.after[1].bookmarks) >= 2
    /\ ReadableAs(file, LAMBDA r : Len(r.bookmarks) >= 2)
    /\ from_str(file).ok

(* C2: starting from a registry in which no Bookmark holds two Applications *)
(* of one name, after any sequence of successful calls (any paths, any     *)
(* application names) no Bookmark holds two Applications of one name.       *)
C2_NoTwoApplicationsShareName ==
    ReadableAs(file0, NoTwoShareName) =>
        /\ Succeeded => NoTwoShareName(last.after[1])
        /\ ReadableAs(file, NoTwoShareName)

\* An application used again on a Bookmark that lists another one too.
C2_Witness ==
    /\ Updated
    /\ \E b \in {BookmarksFor(last.before[1], HrefOf(last.event[1].path))[1]} :
          /\ Len(AppsOf(b)) >= 2
          /\ ApplicationsNamed(b, last.event[1].app_name) # <<>>

(* C3: a call for a path whose href is not in the registry adds exactly one *)
(* Bookmark for it, after the ones that were there: the three timestamps of *)
(* the target file, an Info whose Metadata has owner                        *)
(* "http://freedesktop.org" and whose applications are exactly              *)
(* {name: app_name, exec: exec, count: 1}; from the empty registry the      *)
(* result holds exactly that Bookmark.                                      *)
C3_NewBookmark ==
    Created =>
        \E ev \in {last.event[1]} :
        \E bs \in {last.after[1].bookmarks} :
            /\ Len(bs) = Len(last.before[1].bookmarks) + 1
            /\ SubSeq(bs, 1, Len(bs) - 1) = last.before[1].bookmarks
            /\ Len(BookmarksFor(last.after[1], HrefOf(ev.path))) = 1
            /\ bs[Len(bs)].href = HrefOf(ev.path)
            /\ bs[Len(bs)].added = system_time_to_string(ev.meta.created)
            /\ bs[Len(bs)].modified = system_time_to_string(ev.meta.modified)
            /\ bs[Len(bs)].visited = system_time_to_string(ev.meta.accessed)
            /\ bs[Len(bs)].info # None
            /\ bs[Len(bs)].info[1].metadata.owner = "http://freedesktop.org"
            /\ Len(AppsOf(bs[Len(bs)])) = 1
            /\ AppsOf(bs[Len(bs)])[1].name = ev.app_name
            /\ AppsOf(bs[Len(bs)])[1].exec = ev.exec
            /\ AppsOf(bs[Len(bs)])[1].count = U32(1)
            /\ (last.before[1].bookmarks = <<>> => Len(bs) = 1)

\* update_recently_used("/tmp/a.txt", "org.test", "test") on the empty registry.
C3_Witness ==
    /\ Created
    /\ last.before[1].bookmarks = <<>>
    /\ last.event[1].path = "/tmp/a.txt"
    /\ last.event[1].app_name = "org.test"
    /\ last.event[1].exec = "test"
    /\ HrefsOf(last.after[1]) = {"file:///tmp/a.txt"}
    /\ AppsOf(last.after[1].bookmarks[1])[1].exec = "test"

\* The registry holds one Bookmark for path p, with one Application, named a,
\* whose count is n.
OneBookmarkOneApplication(r, p, a, n) ==
    /\ Len(BookmarksFor(r, HrefOf(p))) = 1
    /\ \E b \in {BookmarksFor(r, HrefOf(p))[1]} :
          /\ Len(AppsOf(b)) = 1
          /\ AppsOf(b)[1].name = a
          /\ AppsOf(b)[1].count = U32(n)

\* Path p had no Bookmark in the registry the first call found.
Fresh(p) == from_str(file0).ok /\ HrefOf(p) \notin HrefsOf(from_str(file0).val)

\* Every successful call for p so far named application a, and there were n.
OnlyBy(p, a, n) ==
    /\ hits[p][a] = n
    /\ \A b \in AppNames \ {a} : hits[p][b] = 0

(* C4: starting with no Bookmark for path p, after n >= 1 successful calls  *)
(* for p, all with application name a (calls for other paths in between or *)
(* not), the registry has exactly one Bookmark for p, with exactly one      *)
(* Application, named a, whose count is n.                                  *)
C4_CountIsNumberOfCalls ==
    \A p \in ValidPaths : \A a \in AppNames : \A n \in 1..MaxCalls :
        (Fresh(p) /\ OnlyBy(p, a, n)) =>
            /\ Succeeded => OneBookmarkOneApplication(last.after[1], p, a, n)
            /\ ReadableAs(file, LAMBDA r : OneBookmarkOneApplication(r, p, a, n))

\* Two calls for one path and one application: one Bookmark, count 2, read
\* back from the file.
C4_Witness ==
    \E p \in ValidPaths : \E a \in AppNames :
        /\ Fresh(p) /\ OnlyBy(p, a, 2)
        /\ from_str(file).ok
        /\ OneBookmarkOneApplication(from_str(file).val, p, a, 2)

(* C5: when the call finds a Bookmark for the href and in it an Application *)
(* named app_name, that Application's modified after the call is the        *)
(* timestamp this call computed (the target file's modification time).      *)
C5_UsedAgainModifiedIsNew ==
    Updated =>
        \E ev \in {last.event[1]} :
        \E old \in {BookmarksFor(last.before[1], HrefOf(ev.path))[1]} :
        \E new \in {BookmarksFor(last.after[1], HrefOf(ev.path))[1]} :
            ApplicationsNamed(old, ev.app_name) # <<>> =>
                \A i \in DOMAIN AppsOf(new) :
                    AppsOf(new)[i].name = ev.app_name =>
                        AppsOf(new)[i].modified = system_time_to_string(ev.meta.modified)

(* C6, as stated: a call that creates a Bookmark places it at the end, and  *)
(* a call that updates a Bookmark leaves it at the index it had.            *)
C6_UpdateKeepsIndex ==
    /\ Created => last.after[1].bookmarks[Len(last.after[1].bookmarks)].href
                    = HrefOf(last.event[1].path)
    /\ Updated => IndexOf(last.after[1], HrefOf(last.event[1].path))
                    = IndexOf(last.before[1], HrefOf(last.event[1].path))

(* C6, amended: a call that creates a Bookmark places it at the end, and a  *)
(* call that updates a Bookmark moves it to the end, whatever index it had; *)
(* the Bookmarks of the other hrefs keep their order before it.             *)
C6_TouchedBookmarkIsLast ==
    Succeeded =>
        \E h \in {HrefOf(last.event[1].path)} :
        \E bs \in {last.after[1].bookmarks} :
            /\ bs # <<>>
            /\ bs[Len(bs)].href = h
            /\ Len(BookmarksFor(last.after[1], h)) = 1
            /\ Map(SubSeq(bs, 1, Len(bs) - 1), LAMBDA b : b.href)
                 = Map(SelectSeq(last.before[1].bookmarks, LAMBDA b : b.href # h),
                       LAMBDA b : b.href)

\* The first of two Bookmarks is touched and ends behind the other.
C6_Witness ==
    /\ Updated
    /\ Len(last.before[1].bookmarks) = 2
    /\ IndexOf(last.before[1], HrefOf(last.event[1].path)) = 1
    /\ IndexOf(last.after[1], HrefOf(last.event[1].path)) = 2

---------------------------------------------------------------------------
(* Concurrent use *)

\* Invocations p and q read the registry before either wrote, both wrote,
\* p first, and their events differ.
Raced(p, q) ==
    /\ p # q
    /\ writes = <<p, q>>
    /\ procs[p].seen = 0 /\ procs[q].seen = 0
    /\ procs[p].event # procs[q].event

\* What is left of p's event in registry r, given the registry `base` both
\* invocations read: nothing.
Lost(r, base, evp, evq) ==
    /\ (HrefOf(evp.path) # HrefOf(evq.path) /\ HrefOf(evp.path) \notin HrefsOf(base))
          => HrefOf(evp.path) \notin HrefsOf(r)
    /\ (HrefOf(evp.path) = HrefOf(evq.path) /\ evp.app_name # evq.app_name
        /\ \A b \in {BookmarksFor(base, HrefOf(evp.path))} :
              b = <<>> \/ ApplicationsNamed(b[1], evp.app_name) = <<>>)
          => ApplicationsNamed(BookmarksFor(r, HrefOf(evq.path))[1], evp.app_name) = <<>>
    /\ (HrefOf(evp.path) = HrefOf(evq.path) /\ evp.app_name = evq.app_name
        /\ HrefOf(evp.path) \notin HrefsOf(base))
          => AppsOf(BookmarksFor(r, HrefOf(evq.path))[1])[1].count = U32(1)

(* C7: nothing locks the load-merge-store cycle: when two invocations for   *)
(* different events both read the registry file before either writes, both  *)
(* return Ok and the file is left with the second writer's document, in     *)
(* which the first writer's Bookmark or Application change is absent.       *)
C7_LostUpdate ==
    \A p, q \in Procs :
        Raced(p, q) =>
            /\ procs[p].result = "Ok" /\ procs[q].result = "Ok"
            /\ procs[p].read = procs[q].read
            /\ file = procs[q].serialized[1]
            /\ Lost(procs[q].after[1], procs[q].before[1],
                    procs[p].event[1], procs[q].event[1])
            /\ ReadableAs(file, LAMBDA r : Lost(r, procs[q].before[1],
                                                procs[p].event[1], procs[q].event[1]))

\* Two new paths recorded at once: only the second writer's is in the file.
C7_Witness ==
    \E p, q \in Procs :
        /\ Raced(p, q)
        /\ procs[p].read[1] = quick_to_string(RecentlyUsed(<<>>))
        /\ HrefOf(procs[p].event[1].path) # HrefOf(procs[q].event[1].path)
        /\ from_str(file).ok
        /\ HrefsOf(from_str(file).val) = {HrefOf(procs[q].event[1].path)}

---------------------------------------------------------------------------
(* The codec on its own *)

(* C8: for every Registry value of 0..MaxBookmarks Bookmarks, each with or  *)
(* without Info (with or without a mime type, with 0..MaxApps               *)
(* Applications), reading what custom_write wrote gives the Registry back,  *)
(* equal in every field and in order.                                       *)
C8_RoundTrip ==
    codec.pc = "parsed" => codec.parsed[1] = Ok(codec.reg[1])

---------------------------------------------------------------------------
(* Reading after writing *)

(* C9: after a successful update_recently_used(path, ..), with no other     *)
(* writer in between, parse_file succeeds on the registry file and the      *)
(* registry it returns holds a Bookmark whose href is the URI of path.      *)
C9_ReadableAfterUpdate ==
    Succeeded =>
        /\ from_str(file).ok
        /\ ReadableAs(file, LAMBDA r : HrefOf(last.event[1].path) \in HrefsOf(r))

(* C10: when the registry file does not exist and its location resolves,    *)
(* parse_file and update_recently_used return Error::DoesNotExist, not      *)
(* Error::Read, and update_recently_used does not create the file.          *)
C10_MissingFileIsDoesNotExist ==
    (last.op # "none" /\ last.fileBefore = NoFile /\ last.fault # "home") =>
        /\ last.result = "DoesNotExist"
        /\ file = NoFile

---------------------------------------------------------------------------
(* The document on disk *)

(* C11: the document update_recently_used writes starts with the XML        *)
(* declaration and its root xbel carries version="1.0", xmlns:bookmark and  *)
(* xmlns:mime, for every registry written, the one without Bookmarks        *)
(* included.                                                                *)
C11_DeclarationAndRootAttributes ==
    Succeeded =>
        /\ IsDoc(file)
        /\ file.decl
        /\ HasAttr(file.root[1], "version")
        /\ AttrOf(file.root[1], "version") = Str("1.0")
        /\ HasAttr(file.root[1], "xmlns:bookmark")
        /\ HasAttr(file.root[1], "xmlns:mime")

---------------------------------------------------------------------------
(* What a call keeps *)

(* C12: no successful update_recently_used removes a resource: every href   *)
(* of the registry before the call is in the registry after it, merged and  *)
(* read back, so over any sequence of calls the hrefs of the registry the   *)
(* first call found are all still there.                                    *)
C12_HrefsOnlyGrow ==
    /\ Succeeded =>
          /\ HrefsOf(last.before[1]) \subseteq HrefsOf(last.after[1])
          /\ ReadableAs(file, LAMBDA r : HrefsOf(last.before[1]) \subseteq HrefsOf(r))
    /\ ReadableAs(file0, LAMBDA r0 :
          ReadableAs(file, LAMBDA r : HrefsOf(r0) \subseteq HrefsOf(r)))

\* A second resource is recorded next to the first, and both are read back.
C12_Witness ==
    /\ Created
    /\ HrefsOf(last.before[1]) # {}
    /\ from_str(file).ok
    /\ Cardinality(HrefsOf(from_str(file).val)) = Cardinality(HrefsOf(last.before[1])) + 1

\* The Bookmark for the call's href, before and after the last successful call.
BookmarkBefore == BookmarksFor(last.before[1], HrefOf(last.event[1].path))[1]
BookmarkAfter == BookmarksFor(last.after[1], HrefOf(last.event[1].path))[1]

\* The three timestamps of bookmark b are those of the target file of ev.
StampedBy(b, ev) ==
    /\ b.added = system_time_to_string(ev.meta.created)
    /\ b.modified = system_time_to_string(ev.meta.modified)
    /\ b.visited = system_time_to_string(ev.meta.accessed)

C14_NewApplicationIsAppended ==
    (/\ Updated
     /\ BookmarkBefore.info # None
     /\ ApplicationsNamed(BookmarkBefore, last.event[1].app_name) = <<>>) =>
        \E ev \in {last.event[1]} :
        \E expected \in {Append(AppsOf(BookmarkBefore),
                                [name |-> ev.app_name, exec |-> ev.exec,
                                 modified |-> system_time_to_string(ev.meta.modified),
                                 count |-> U32(1)])} :
            /\ AppsOf(BookmarkAfter) = expected
            /\ ReadableAs(file, LAMBDA r :
                  AppsOf(BookmarksFor(r, HrefOf(ev.path))[1]) = expected)

\* A second application opens a resource that one application had opened.
C14_Witness ==
    /\ Updated
    /\ BookmarkBefore.info # None
    /\ Len(AppsOf(BookmarkBefore)) = 1
    /\ Len(AppsOf(BookmarkAfter)) = 2
    /\ AppsOf(BookmarkAfter)[1] = AppsOf(BookmarkBefore)[1]
    /\ AppsOf(BookmarkAfter)[2].name = last.event[1].app_name
    /\ from_str(file).ok

\* Owner and mime type of the Bookmark for href h in registry r.
OwnerAndMime(r, h) ==
    Bind(BookmarksFor(r, h)[1],
         LAMBDA b : IF b.info = None THEN None
                    ELSE Some([owner |-> b.info[1].metadata.owner,
                               mime_type |-> b.info[1].metadata.mime_type]))

(* C15: a call that updates a Bookmark leaves its Metadata owner and mime    *)
(* type as they were: as the call found them, and as the call before it,    *)
(* which wrote the registry this call read, had left them; they are set     *)
(* only by the call that creates the Bookmark.                              *)
C15_OwnerAndMimeKept ==
    [][(/\ last'.op = "update_recently_used" /\ last'.result = "Ok"
        /\ HrefOf(last'.event[1].path) \in HrefsOf(last'.before[1]))
       => \E h \in {HrefOf(last'.event[1].path)} :
            /\ OwnerAndMime(last'.after[1], h) = OwnerAndMime(last'.before[1], h)
            /\ (Succeeded /\ h \in HrefsOf(last.after[1]))
                  => OwnerAndMime(last'.after[1], h) = OwnerAndMime(last.after[1], h)]_vars

\* The timestamps of the Bookmarks of registry r, by href, but for href h.
StampsBut(r, h) ==
    {[href |-> r.bookmarks[i].href, added |-> r.bookmarks[i].added,
      modified |-> r.bookmarks[i].modified, visited |-> r.bookmarks[i].visited] :
        i \in {j \in DOMAIN r.bookmarks : r.bookmarks[j].href # h}}

(* C16: after any sequence of successful calls, added, modified and visited *)
(* of the Bookmark for an href are the three timestamps of the most recent  *)
(* call for that href, whatever they were before: a call overwrites them    *)
(* for its href, with older values too, and leaves those of every other     *)
(* href as they were.                                                       *)
C16_TimestampsOverwritten ==
    Succeeded =>
        /\ StampedBy(BookmarkAfter, last.event[1])
        /\ StampsBut(last.after[1], HrefOf(last.event[1].path))
             = StampsBut(last.before[1], HrefOf(last.event[1].path))
        /\ ReadableAs(file, LAMBDA r :
              /\ StampedBy(BookmarksFor(r, HrefOf(last.event[1].path))[1], last.event[1])
              /\ StampsBut(r, HrefOf(last.event[1].path))
                   = StampsBut(last.before[1], HrefOf(last.event[1].path)))

\* A bookmark added at ...03Z is touched by a call that computes ...01Z.
C16_Witness ==
    /\ Updated
    /\ BookmarkBefore.added = system_time_to_string(3)
    /\ last.event[1].meta.created = 1
    /\ BookmarkAfter.added = system_time_to_string(1)
    /\ from_str(file).ok

\* Every Application of registry r has a count of 1 or more.
CountsAtLeastOne(r) ==
    \A i \in DOMAIN r.bookmarks :
        \A j \in DOMAIN AppsOf(r.bookmarks[i]) :
            AppsOf(r.bookmarks[i])[j].count # U32(0)

(* C17: starting from a registry whose Applications all have count >= 1,    *)
(* every Application of a registry that update_recently_used writes has     *)
(* count >= 1, also when the Application used again has count 2^32 - 1: the *)
(* increment stores no 0.                                                   *)
C17_CountAtLeastOne ==
    ReadableAs(file0, CountsAtLeastOne) =>
        /\ Succeeded => CountsAtLeastOne(last.after[1])
        /\ ReadableAs(file, CountsAtLeastOne)

---------------------------------------------------------------------------
(* Failures *)

(* C18: an update_recently_used that returns an error raised before the     *)
(* write step (location or file not found, read, parse, path, metadata,     *)
(* serialization) leaves the registry file exactly as it was; only a call   *)
(* that returns Ok or Error::Update can have changed it, and parse_file     *)
(* never does.                                                              *)
C18_ErrorsBeforeWriteKeepFile ==
    /\ (last.op = "update_recently_used" /\ last.result \notin {"Ok", "Update"})
          => file = last.fileBefore
    /\ last.op = "parse_file" => file = last.fileBefore
    /\ file # last.fileBefore
          => /\ last.op = "update_recently_used"
             /\ last.fault \in {"none", "write"}

\* The location stops resolving between the merge and the write: the call
\* returns DoesNotExist and the document is still there.
C18_Witness ==
    /\ last.op = "update_recently_used"
    /\ last.fault = "home2"
    /\ last.result = "DoesNotExist"
    /\ IsDoc(file)
    /\ file = last.fileBefore

---------------------------------------------------------------------------
(* The other Bookmarks *)

\* The Bookmarks of registry r whose href is not h, in order.
BookmarksBut(r, h) == SelectSeq(r.bookmarks, LAMBDA b : b.href # h)

(* C19: a successful call for href h changes no Bookmark of another href:   *)
(* each keeps its href, its timestamps and its Info (owner, mime type, each *)
(* Application's name, exec, modified, count) and they keep their order,    *)
(* with respect to the registry the call found and to the registry the      *)
(* call before it, which wrote the file this call read, had left.           *)
C19_OtherBookmarksUntouched ==
    [][(last'.op = "update_recently_used" /\ last'.result = "Ok")
       => \E h \in {HrefOf(last'.event[1].path)} :
            /\ BookmarksBut(last'.after[1], h) = BookmarksBut(last'.before[1], h)
            /\ Succeeded => BookmarksBut(last'.after[1], h) = BookmarksBut(last.after[1], h)]_vars

====
